---- MODULE Spec2Model ----
(***************************************************************************)
(* Model of drfc_manager/utils/minio/utilities.py: a facade of seven       *)
(* operations over an S3-compatible storage client.                        *)
(*                                                                         *)
(* A string is a sequence of characters, a byte string a sequence of byte  *)
(* tokens, so that key prefixes, serialisation and lengths are computed.   *)
(***************************************************************************)
EXTENDS Integers, Sequences, FiniteSets, TLC

\* ------------------------------------------------------------------ bounds
\* Largest number of fields of a record given to the JSON uploads.
MaxFields == 1
\* Largest number of facade invocations started in one behaviour.
MaxInvocations == 2

\* ------------------------------------------------------- strings and bytes
QUOTE == "QUOTE"
BSLASH == "BSLASH"
LF == "LF"
SP == "SP"
EACUTE == "e-acute"

Digits == <<"0", "1", "2", "3", "4", "5", "6", "7", "8", "9">>

\* str.encode(): the UTF-8 bytes of one character (U+00E9 takes two bytes).
Utf8Char(c) ==
    IF c = EACUTE THEN <<"0xC3", "0xA9">> ELSE <<c>>

\* A JSON value of a record: an integer or a string.
IntVal(n) == [type |-> "int", int |-> n, str |-> <<>>]
StrVal(s) == [type |-> "str", int |-> 0, str |-> s]

\* ------------------------------------------------------------ orjson.dumps
RECURSIVE NatBytes(_)
NatBytes(n) ==
    IF n < 10 THEN <<Digits[n + 1]>>
    ELSE NatBytes(n \div 10) \o <<Digits[(n % 10) + 1]>>

IntBytes(n) ==
    IF n < 0 THEN <<"-">> \o NatBytes(0 - n) ELSE NatBytes(n)

\* A string's characters, with the quotation mark and the backslash escaped.
RECURSIVE EscapedBytes(_)
EscapedBytes(s) ==
    IF s = <<>> THEN <<>>
    ELSE LET c == Head(s)
             e == IF c = QUOTE THEN <<BSLASH, QUOTE>>
                  ELSE IF c = BSLASH THEN <<BSLASH, BSLASH>>
                  ELSE Utf8Char(c)
         IN  e \o EscapedBytes(Tail(s))

StrBytes(s) == <<QUOTE>> \o EscapedBytes(s) \o <<QUOTE>>

ValueBytes(v) ==
    IF v.type = "int" THEN IntBytes(v.int) ELSE StrBytes(v.str)

\* One member on its own line, indented by two spaces (OPT_INDENT_2).
MemberBytes(m) ==
    <<SP, SP>> \o StrBytes(m.name) \o <<":", SP>> \o ValueBytes(m.value)

RECURSIVE MembersBytes(_)
MembersBytes(rec) ==
    IF Len(rec) = 1 THEN MemberBytes(rec[1])
    ELSE MemberBytes(rec[1]) \o <<",", LF>> \o MembersBytes(Tail(rec))

\* dumps(record, option=OPT_INDENT_2): the record's fields in their order.
dumps(rec) ==
    IF rec = <<>> THEN <<"{", "}">>
    ELSE <<"{", LF>> \o MembersBytes(rec) \o <<LF, "}">>

\* ------------------------------------------------------------- JSON loads
\* Deserialisation, as the round trip of the JSON bodies reads them back.
Failed == [ok |-> FALSE, next |-> 0, value |-> IntVal(0)]

RECURSIVE SkipWs(_, _)
SkipWs(b, i) ==
    IF i <= Len(b) /\ b[i] \in {SP, LF} THEN SkipWs(b, i + 1) ELSE i

DigitOf(c) == CHOOSE d \in 0..9 : Digits[d + 1] = c
IsDigit(c) == \E d \in 0..9 : Digits[d + 1] = c

RECURSIVE ParseNat(_, _, _)
ParseNat(b, i, acc) ==
    IF i <= Len(b) /\ IsDigit(b[i])
    THEN ParseNat(b, i + 1, acc * 10 + DigitOf(b[i]))
    ELSE [ok |-> TRUE, next |-> i, value |-> IntVal(acc)]

ParseInt(b, i) ==
    IF i <= Len(b) /\ b[i] = "-"
    THEN IF i + 1 <= Len(b) /\ IsDigit(b[i + 1])
         THEN LET r == ParseNat(b, i + 1, 0)
              IN  [r EXCEPT !.value = IntVal(0 - r.value.int)]
         ELSE Failed
    ELSE IF i <= Len(b) /\ IsDigit(b[i]) THEN ParseNat(b, i, 0)
    ELSE Failed

\* The characters of a string body from i to its closing quotation mark.
RECURSIVE ParseChars(_, _, _)
ParseChars(b, i, acc) ==
    IF i > Len(b) THEN Failed
    ELSE IF b[i] = QUOTE
         THEN [ok |-> TRUE, next |-> i + 1, value |-> StrVal(acc)]
    ELSE IF b[i] = BSLASH
         THEN IF i + 1 <= Len(b) /\ b[i + 1] \in {QUOTE, BSLASH}
              THEN ParseChars(b, i + 2, Append(acc, b[i + 1]))
              ELSE Failed
    ELSE IF b[i] = "0xC3"
         THEN IF i + 1 <= Len(b) /\ b[i + 1] = "0xA9"
              THEN ParseChars(b, i + 2, Append(acc, EACUTE))
              ELSE Failed
    ELSE IF b[i] \in {"0xA9", LF} THEN Failed
    ELSE ParseChars(b, i + 1, Append(acc, b[i]))

ParseString(b, i) ==
    IF i <= Len(b) /\ b[i] = QUOTE THEN ParseChars(b, i + 1, <<>>) ELSE Failed

ParseValue(b, i) ==
    IF i <= Len(b) /\ b[i] = QUOTE THEN ParseString(b, i) ELSE ParseInt(b, i)

\* What loads gives: the record read, or a decoding error.
Decoded(rec) == [ok |-> TRUE, record |-> rec]
JSONDecodeError == [ok |-> FALSE, record |-> <<>>]

\* Members from i on, up to the closing brace: "name": value (, ...)*
RECURSIVE ParseMembers(_, _, _)
ParseMembers(b, i, acc) ==
    LET n == ParseString(b, SkipWs(b, i))
    IN  IF ~n.ok THEN JSONDecodeError
        ELSE LET c == SkipWs(b, n.next)
             IN  IF ~(c <= Len(b) /\ b[c] = ":") THEN JSONDecodeError
                 ELSE LET v == ParseValue(b, SkipWs(b, c + 1))
                      IN  IF ~v.ok THEN JSONDecodeError
                          ELSE LET e == SkipWs(b, v.next)
                                   got == Append(acc, [name |-> n.value.str,
                                                       value |-> v.value])
                               IN  IF e > Len(b) THEN JSONDecodeError
                                   ELSE IF b[e] = ","
                                        THEN ParseMembers(b, e + 1, got)
                                   ELSE IF b[e] = "}" /\ SkipWs(b, e + 1) > Len(b)
                                        THEN Decoded(got)
                                   ELSE JSONDecodeError

loads(b) ==
    LET i == SkipWs(b, 1)
    IN  IF ~(i <= Len(b) /\ b[i] = "{") THEN JSONDecodeError
        ELSE LET j == SkipWs(b, i + 1)
             IN  IF j <= Len(b) /\ b[j] = "}"
                 THEN IF SkipWs(b, j + 1) > Len(b) THEN Decoded(<<>>)
                      ELSE JSONDecodeError
                 ELSE ParseMembers(b, j, <<>>)

\* ---------------------------------------------------------- configuration
Callers == {"c1", "c2"}

\* os.getenv(name): the variable's text, or None when it is not set.
None == [none |-> TRUE, str |-> <<>>]
Some(s) == [none |-> FALSE, str |-> s]
getenv(env, name) == IF name \in DOMAIN env THEN Some(env[name]) ELSE None

\* An f-string's {value}: the text itself, and the text None for None.
Format(v) == IF v.none THEN <<"None">> ELSE v.str

\* The process environments the module may be loaded in.
Environments ==
    { [BUCKET_NAME |-> <<"models">>, CUSTOM_FILES_FOLDER_PATH |-> <<"custom">>],
      [BUCKET_NAME |-> <<"models">>],
      [CUSTOM_FILES_FOLDER_PATH |-> <<"custom">>] }

\* -------------------------------------------------------------- the inputs
\* The example record of the documentation and the empty record.
BatchSize64 == <<[name |-> <<"batch_size">>, value |-> IntVal(64)]>>
SmallRecords == {<<>>, BatchSize64}

FieldNames == {<<"a">>, <<"b">>, <<"c">>}
FieldValues == {IntVal(-12), IntVal(64), StrVal(<<"x", QUOTE>>),
                StrVal(<<EACUTE, BSLASH>>)}

\* The records of at most n fields, with distinct names.
RECURSIVE RecordsUpTo(_)
RecordsUpTo(n) ==
    IF n = 0 THEN {<<>>}
    ELSE LET less == RecordsUpTo(n - 1)
         IN  less \cup
             { Append(r, [name |-> f, value |-> v]) :
                 <<r, f, v>> \in
                   { t \in less \X FieldNames \X FieldValues :
                       /\ Len(t[1]) = n - 1
                       /\ \A i \in 1..Len(t[1]) : t[1][i].name # t[2] } }

Records == RecordsUpTo(MaxFields)

\* io.BytesIO: the bytes held and the position the next read starts at.
BytesIO(bytes) == [content |-> bytes, pos |-> 0]
NoBuffer == BytesIO(<<>>)
Script == <<"d", "e", "f">>
SmallBuffers == {BytesIO(Script), [content |-> Script, pos |-> 3]}
Buffers ==
    { [content |-> b, pos |-> p] :
        <<b, p>> \in { t \in {<<>>, <<"d">>, Script} \X (0..3) : t[2] <= Len(t[1]) } }

\* The local files, by path; any other path names no file.
Files == [model |-> <<"t", "a", "r">>]
LocalPaths == {"model", "missing"}

\* Keys a caller supplies: one under the folder custom, one outside it.
ObjectNames == {<<"custom", "/", "a.json">>, <<"b.json">>}
Prefixes == {<<"custom">>, <<"b.json">>}

\* What a client call may do: complete, or raise a storage error (a
\* MinioException) or some other error.
Faults == {"none", "MinioException", "Exception"}
\* What a put that completes reports: a result object or null.
Returns == {"result", "null"}

\* The buckets the store may hold when the process starts.
InitialStores ==
    { <<>>,
      [k \in {<<"custom", "/", "a.json">>} |->
          [data |-> <<"o", "l", "d">>, content_type |-> "application/json"]] }

VARIABLES
    bucket_name,          \* _bucket_name
    custom_files_folder,  \* _custom_files_folder
    store,                \* the bucket: key -> object
    pc,                   \* per caller: idle, listed, returned
    invocation,           \* per caller: the operation running and its arguments
    calls,                \* per caller: the client calls of the invocation
    result,               \* per caller: what the invocation returned or raised
    listing,              \* per caller: objects_names of remove_objects_folder
    raced,                \* per caller: keys others wrote since its listing
    interleaved,          \* per caller: another caller acted since its listing
    started               \* the number of invocations started

vars == <<bucket_name, custom_files_folder, store, pc, invocation, calls,
          result, listing, raced, interleaved, started>>

\* --------------------------------------------------------------- the store
Put(st, key, obj) ==
    [k \in DOMAIN st \cup {key} |-> IF k = key THEN obj ELSE st[k]]

Without(st, keys) == [k \in DOMAIN st \ keys |-> st[k]]

StartsWith(s, prefix) ==
    Len(prefix) <= Len(s) /\ SubSeq(s, 1, Len(prefix)) = prefix

Min(a, b) == IF a < b THEN a ELSE b

\* ------------------------------------------------------ the storage client
NoSource == [bucket |-> None, object |-> <<>>]
NoCall ==
    [method |-> "-", bucket |-> None, key |-> <<>>, source |-> NoSource,
     stream |-> NoBuffer, length |-> -1, content_type |-> "-",
     file_path |-> "-", keys |-> {}, sent |-> <<>>, fault |-> "none",
     raised |-> "none", reported |-> "-"]

Reply(call, value, st, pos) ==
    [call |-> call, raised |-> call.raised, value |-> value, store |-> st,
     pos |-> pos]

\* put_object(bucket, key, stream, length, content_type) -> result-or-null.
\* It reads length bytes from the stream's position on and raises when the
\* stream holds fewer.
put_object(st, bucket, key, stream, length, content_type, fault, ret) ==
    LET avail == SubSeq(stream.content, stream.pos + 1, Len(stream.content))
        sent == SubSeq(avail, 1, Min(length, Len(avail)))
        call == [NoCall EXCEPT !.method = "put_object", !.bucket = bucket,
                               !.key = key, !.stream = stream,
                               !.length = length,
                               !.content_type = content_type,
                               !.fault = fault]
    IN  IF bucket.none
        THEN Reply([call EXCEPT !.raised = "Exception"], "-", st, stream.pos)
        ELSE IF Len(avail) < length
        THEN Reply([call EXCEPT !.raised = "Exception", !.sent = sent], "-",
                   st, stream.pos + Len(sent))
        ELSE IF fault # "none"
        THEN Reply([call EXCEPT !.raised = fault, !.sent = sent], "-", st,
                   stream.pos + Len(sent))
        ELSE Reply([call EXCEPT !.sent = sent, !.reported = ret], ret,
                   Put(st, key, [data |-> sent, content_type |-> content_type]),
                   stream.pos + Len(sent))

\* fput_object(bucket, key, local_path) -> result-or-null.
fput_object(st, bucket, key, file_path, fault, ret) ==
    LET call == [NoCall EXCEPT !.method = "fput_object", !.bucket = bucket,
                               !.key = key, !.file_path = file_path,
                               !.fault = fault]
    IN  IF bucket.none \/ file_path \notin DOMAIN Files
        THEN Reply([call EXCEPT !.raised = "Exception"], "-", st, 0)
        ELSE IF fault # "none"
        THEN Reply([call EXCEPT !.raised = fault], "-", st, 0)
        ELSE Reply([call EXCEPT !.sent = Files[file_path], !.reported = ret],
                   ret,
                   Put(st, key, [data |-> Files[file_path],
                                 content_type |-> "application/octet-stream"]),
                   0)

\* stat_object(bucket, key): raises on an absent key.
stat_object(st, bucket, key, fault) ==
    LET call == [NoCall EXCEPT !.method = "stat_object", !.bucket = bucket,
                               !.key = key,
                               !.fault = fault]
    IN  IF bucket.none
        THEN Reply([call EXCEPT !.raised = "Exception"], "-", st, 0)
        ELSE IF fault # "none"
        THEN Reply([call EXCEPT !.raised = fault], "-", st, 0)
        ELSE IF key \notin DOMAIN st
        THEN Reply([call EXCEPT !.raised = "MinioException"], "-", st, 0)
        ELSE Reply([call EXCEPT !.reported = "result"], "result", st, 0)

\* copy_object(bucket, dest_key, source_descriptor) -> result.
client_copy_object(st, bucket, key, source, fault) ==
    LET call == [NoCall EXCEPT !.method = "copy_object", !.bucket = bucket,
                               !.key = key, !.source = source,
                               !.fault = fault]
    IN  IF bucket.none \/ source.bucket.none
        THEN Reply([call EXCEPT !.raised = "Exception"], "-", st, 0)
        ELSE IF fault # "none"
        THEN Reply([call EXCEPT !.raised = fault], "-", st, 0)
        ELSE IF source.bucket # bucket \/ source.object \notin DOMAIN st
        THEN Reply([call EXCEPT !.raised = "MinioException"], "-", st, 0)
        ELSE Reply([call EXCEPT !.reported = "result"], "result",
                   Put(st, key, st[source.object]), 0)

\* list_objects(bucket, prefix) -> the keys that start with prefix.
list_objects(st, bucket, prefix, fault) ==
    LET call == [NoCall EXCEPT !.method = "list_objects", !.bucket = bucket,
                               !.key = prefix,
                               !.fault = fault]
    IN  IF bucket.none
        THEN Reply([call EXCEPT !.raised = "Exception"], {}, st, 0)
        ELSE IF fault # "none"
        THEN Reply([call EXCEPT !.raised = fault], {}, st, 0)
        ELSE LET found == {k \in DOMAIN st : StartsWith(k, prefix)}
             IN  Reply([call EXCEPT !.keys = found], found, st, 0)

\* remove_objects(bucket, list-of-keys) -> iterable of per-key errors: the
\* keys in errors are not deleted, and are reported in the value returned.
remove_objects(st, bucket, delete_objects, errors, fault) ==
    LET call == [NoCall EXCEPT !.method = "remove_objects", !.bucket = bucket,
                               !.keys = delete_objects,
                               !.fault = fault]
    IN  IF bucket.none
        THEN Reply([call EXCEPT !.raised = "Exception"], {}, st, 0)
        ELSE IF fault # "none"
        THEN Reply([call EXCEPT !.raised = fault], {}, st, 0)
        ELSE Reply(call, errors, Without(st, delete_objects \ errors), 0)

\* -------------------------------------------------------------- the facade
NoInvocation ==
    [op |-> "-", record |-> <<>>, buffer |-> NoBuffer,
     buffer_after |-> NoBuffer, local_data_path |-> "-", object_name |-> <<>>,
     source_object_name |-> <<>>, dest_object_name |-> <<>>]

\* A key built without the folder.
FolderKeyBare(folder, object_name) == <<object_name>>

\* f'{_custom_files_folder}/{object_name}'
FolderKey(folder, object_name) == Format(folder) \o <<"/", object_name>>

\* The number of characters of the text, not of its bytes.
object_size_chars(serialized) ==
    Len(SelectSeq(serialized, LAMBDA b : b # "0xA9"))

\* len(serialized)
object_size(serialized) == Len(serialized)

\* reward_function_buffer.getbuffer().nbytes: the size of the whole buffer.
buffer_size(buffer) == Len(buffer.content)

\* A null result taken for a failure.
truthy_or_raise(value) ==
    IF value = "result" THEN "True" ELSE "FileUploadException"

\* True if result else False
truthy(value) == IF value = "result" THEN "True" ELSE "False"

\* Only the storage error is caught: any other error propagates as it is.
on_error_storage_only(raised) ==
    IF raised = "MinioException" THEN "FileUploadException" ELSE raised

\* except MinioException: raise FileUploadException(message=...)
\* except Exception as e: raise FileUploadException(original_exception=e)
on_error(raised) ==
    CASE raised = "MinioException" -> "FileUploadException"
      [] OTHER -> "FileUploadException"

\* Only the storage error means absent: any other error propagates.
exists_outcome_storage_only(raised) ==
    IF raised = "none" THEN "True"
    ELSE IF raised = "MinioException" THEN "False" ELSE raised

\* check_if_object_exists: return True, except Exception: return False
exists_outcome(raised) == IF raised = "none" THEN "True" ELSE "False"

\* CopySource(_bucket_name, source_object_name)
CopySource(bucket, object) == [bucket |-> bucket, object |-> object]

\* The two names in each other's place.
copy_arguments_swapped(source_object_name, dest_object_name) ==
    [key |-> source_object_name,
     source |-> [bucket |-> bucket_name, object |-> dest_object_name]]

\* The destination key and the source of copy_object's client call.
copy_arguments(source_object_name, dest_object_name) ==
    [key |-> dest_object_name,
     source |-> CopySource(bucket_name, source_object_name)]

\* The delete request built from the bucket as it is now.
delete_objects_now(objects_names) == DOMAIN store

\* [DeleteObject(object_name) for object_name in objects_names]
delete_objects(objects_names) == objects_names

\* The failure of the listing is noted and the deletion goes on.
after_list_continue(raised) == "listed"

\* An exception in the listing leaves the try block: no remove_objects call.
after_list(raised) == IF raised = "none" THEN "listed" ELSE "returned"

\* The key upload_local_data writes: object_name=object_name.
local_data_key(object_name) == object_name

CanInvoke(c) == pc[c] = "idle" /\ started < MaxInvocations

\* What the step of caller c means to the callers that have listed and not
\* yet removed: the keys it wrote race with their delete request.
Observe(c, written, deleted) ==
    /\ raced' = [d \in Callers |->
                    IF d = c THEN raced[d]
                    ELSE IF pc[d] = "listed"
                    THEN (raced[d] \cup written) \ deleted
                    ELSE raced[d] \ deleted]
    /\ interleaved' = [d \in Callers |->
                          IF d # c /\ pc[d] = "listed" THEN TRUE
                          ELSE interleaved[d]]

\* The invocation of c ran its one client call, with reply r.
Complete(c, inv, r, res, written) ==
    /\ store' = r.store
    /\ pc' = [pc EXCEPT ![c] = "returned"]
    /\ invocation' = [invocation EXCEPT ![c] = inv]
    /\ calls' = [calls EXCEPT ![c] = <<r.call>>]
    /\ result' = [result EXCEPT ![c] = res]
    /\ started' = started + 1
    /\ Observe(c, written, {})
    /\ UNCHANGED <<bucket_name, custom_files_folder, listing>>

Written(r, key) == IF r.raised = "none" THEN {key} ELSE {}

upload_hyperparameters(c, hyperparameters, fault, ret) ==
    /\ CanInvoke(c)
    /\ LET hyperparameters_serialized == dumps(hyperparameters)
           object_name == "hyperparameters.json"
           key == FolderKey(custom_files_folder, object_name)
           r == put_object(store, bucket_name, key,
                           BytesIO(hyperparameters_serialized),
                           object_size(hyperparameters_serialized),
                           "application/json", fault, ret)
       IN  Complete(c, [NoInvocation EXCEPT !.op = "upload_hyperparameters",
                                            !.record = hyperparameters],
                    r,
                    IF r.raised = "none" THEN truthy(r.value)
                    ELSE on_error(r.raised),
                    Written(r, key))

upload_reward_function(c, reward_function_buffer, fault, ret) ==
    /\ CanInvoke(c)
    /\ LET object_name == "reward_function.py"
           key == FolderKey(custom_files_folder, object_name)
           r == put_object(store, bucket_name, key, reward_function_buffer,
                           buffer_size(reward_function_buffer), "text/plain",
                           fault, ret)
       IN  Complete(c, [NoInvocation EXCEPT
                          !.op = "upload_reward_function",
                          !.buffer = reward_function_buffer,
                          !.buffer_after =
                              [reward_function_buffer EXCEPT !.pos = r.pos]],
                    r,
                    IF r.raised = "none" THEN truthy(r.value)
                    ELSE on_error(r.raised),
                    Written(r, key))

upload_metadata(c, model_metadata, fault, ret) ==
    /\ CanInvoke(c)
    /\ LET model_metadata_serialized == dumps(model_metadata)
           object_name == "model_metadata.json"
           key == FolderKey(custom_files_folder, object_name)
           r == put_object(store, bucket_name, key,
                           BytesIO(model_metadata_serialized),
                           object_size(model_metadata_serialized),
                           "application/json", fault, ret)
       IN  Complete(c, [NoInvocation EXCEPT !.op = "upload_metadata",
                                            !.record = model_metadata],
                    r,
                    IF r.raised = "none" THEN truthy(r.value)
                    ELSE on_error(r.raised),
                    Written(r, key))

upload_local_data(c, local_data_path, object_name, fault, ret) ==
    /\ CanInvoke(c)
    /\ LET key == local_data_key(object_name)
           r == fput_object(store, bucket_name, key, local_data_path, fault,
                            ret)
       IN  Complete(c, [NoInvocation EXCEPT
                          !.op = "upload_local_data",
                          !.local_data_path = local_data_path,
                          !.object_name = object_name],
                    r,
                    IF r.raised = "none" THEN truthy(r.value)
                    ELSE on_error(r.raised),
                    Written(r, key))

check_if_object_exists(c, object_name, fault) ==
    /\ CanInvoke(c)
    /\ LET r == stat_object(store, bucket_name, object_name, fault)
       IN  Complete(c, [NoInvocation EXCEPT
                          !.op = "check_if_object_exists",
                          !.object_name = object_name],
                    r, exists_outcome(r.raised), {})

copy_object(c, source_object_name, dest_object_name, fault) ==
    /\ CanInvoke(c)
    /\ LET a == copy_arguments(source_object_name, dest_object_name)
           r == client_copy_object(store, bucket_name, a.key, a.source, fault)
       IN  Complete(c, [NoInvocation EXCEPT
                          !.op = "copy_object",
                          !.source_object_name = source_object_name,
                          !.dest_object_name = dest_object_name],
                    r,
                    IF r.raised = "none" THEN "True" ELSE on_error(r.raised),
                    Written(r, a.key))

\* remove_objects_folder up to its first client call, list_objects, whose
\* result the list comprehension reads in full.
remove_objects_folder_list(c, object_name, fault) ==
    /\ CanInvoke(c)
    /\ LET r == list_objects(store, bucket_name, object_name, fault)
       IN  /\ pc' = [pc EXCEPT ![c] = after_list(r.raised)]
           /\ invocation' = [invocation EXCEPT ![c] =
                  [NoInvocation EXCEPT !.op = "remove_objects_folder",
                                       !.object_name = object_name]]
           /\ calls' = [calls EXCEPT ![c] = <<r.call>>]
           /\ listing' = [listing EXCEPT ![c] = r.value]
           /\ result' = [result EXCEPT ![c] =
                  IF r.raised = "none" THEN "-" ELSE on_error(r.raised)]
    /\ started' = started + 1
    /\ raced' = [d \in Callers |-> IF d = c THEN {} ELSE raced[d]]
    /\ interleaved' = [d \in Callers |->
                          IF d = c THEN FALSE
                          ELSE IF pc[d] = "listed" THEN TRUE
                          ELSE interleaved[d]]
    /\ UNCHANGED <<bucket_name, custom_files_folder, store>>

\* remove_objects_folder from its second client call, remove_objects, on:
\* the iterable of per-key errors it returns is not read.
remove_objects_folder_remove(c, fault) ==
    /\ pc[c] = "listed"
    /\ \E errors \in SUBSET delete_objects(listing[c]) :
         LET r == remove_objects(store, bucket_name,
                                 delete_objects(listing[c]), errors, fault)
         IN  /\ store' = r.store
             /\ calls' = [calls EXCEPT ![c] = Append(@, r.call)]
             /\ result' = [result EXCEPT ![c] =
                    IF r.raised = "none" THEN "True" ELSE on_error(r.raised)]
             /\ Observe(c, {}, DOMAIN store \ DOMAIN r.store)
    /\ pc' = [pc EXCEPT ![c] = "returned"]
    /\ UNCHANGED <<bucket_name, custom_files_folder, invocation, listing,
                   started>>

\* The caller has its result and is free to call again.
Return(c) ==
    /\ pc[c] = "returned"
    /\ pc' = [pc EXCEPT ![c] = "idle"]
    /\ invocation' = [invocation EXCEPT ![c] = NoInvocation]
    /\ calls' = [calls EXCEPT ![c] = <<>>]
    /\ result' = [result EXCEPT ![c] = "-"]
    /\ listing' = [listing EXCEPT ![c] = {}]
    /\ raced' = [raced EXCEPT ![c] = {}]
    /\ interleaved' = [interleaved EXCEPT ![c] = FALSE]
    /\ UNCHANGED <<bucket_name, custom_files_folder, store, started>>

\* ------------------------------------------------------ the specifications
\* The module is loaded: lines 15-16 read the configuration once.
Init ==
    /\ \E env \in Environments :
          /\ bucket_name = getenv(env, "BUCKET_NAME")
          /\ custom_files_folder = getenv(env, "CUSTOM_FILES_FOLDER_PATH")
    /\ store \in InitialStores
    /\ pc = [c \in Callers |-> "idle"]
    /\ invocation = [c \in Callers |-> NoInvocation]
    /\ calls = [c \in Callers |-> <<>>]
    /\ result = [c \in Callers |-> "-"]
    /\ listing = [c \in Callers |-> {}]
    /\ raced = [c \in Callers |-> {}]
    /\ interleaved = [c \in Callers |-> FALSE]
    /\ started = 0

\* Callers invoke the operations concurrently, one client call at a time.
Next ==
    \E c \in Callers :
        \/ \E h \in SmallRecords, f \in Faults, r \in Returns :
              upload_hyperparameters(c, h, f, r)
        \/ \E b \in SmallBuffers, f \in Faults, r \in Returns :
              upload_reward_function(c, b, f, r)
        \/ \E m \in SmallRecords, f \in Faults, r \in Returns :
              upload_metadata(c, m, f, r)
        \/ \E p \in LocalPaths, n \in ObjectNames, f \in Faults, r \in Returns :
              upload_local_data(c, p, n, f, r)
        \/ \E n \in ObjectNames, f \in Faults :
              check_if_object_exists(c, n, f)
        \/ \E s \in ObjectNames, d \in ObjectNames, f \in Faults :
              copy_object(c, s, d, f)
        \/ \E n \in Prefixes, f \in Faults :
              remove_objects_folder_list(c, n, f)
        \/ \E f \in Faults :
              remove_objects_folder_remove(c, f)
        \/ Return(c)

Spec == Init /\ [][Next]_vars

\* One caller uploads one payload, drawn from all the bounded payloads.
NextPayload ==
    \/ \E h \in Records, f \in Faults, r \in Returns :
          upload_hyperparameters("c1", h, f, r)
    \/ \E m \in Records, f \in Faults, r \in Returns :
          upload_metadata("c1", m, f, r)
    \/ \E b \in Buffers, f \in Faults, r \in Returns :
          upload_reward_function("c1", b, f, r)

SpecPayload == Init /\ [][NextPayload]_vars

\* ------------------------------------------------------------- properties
Returned(c) == pc[c] = "returned"
Op(c) == invocation[c].op
FirstCall(c) == calls[c][1]
Began(c) == pc[c] = "idle" /\ pc'[c] # "idle"

RaisingOps ==
    {"upload_hyperparameters", "upload_reward_function", "upload_metadata",
     "upload_local_data", "copy_object", "remove_objects_folder"}
UploadOps ==
    {"upload_hyperparameters", "upload_reward_function", "upload_metadata",
     "upload_local_data"}

\* C1: in each of the six raising operations, whenever a client call raised
\* (a storage error or any other error) the operation has returned by
\* raising FileUploadException: no raw error and no boolean.
C1_ErrorsBecomeUploadFailure ==
    \A c \in Callers :
        (/\ Op(c) \in RaisingOps
         /\ \E i \in 1..Len(calls[c]) : calls[c][i].raised # "none")
        => (Returned(c) /\ result[c] = "FileUploadException")

C1_Witness ==
    \E c \in Callers, d \in Callers :
        /\ Op(c) = "remove_objects_folder" /\ Len(calls[c]) = 2
        /\ calls[c][2].raised = "MinioException"
        /\ result[c] = "FileUploadException"
        /\ Op(d) = "copy_object" /\ FirstCall(d).raised = "Exception"
        /\ result[d] = "FileUploadException"

\* C2: check_if_object_exists never raises: it makes the stat_object probe
\* of object_name in the configured bucket, returns True exactly when the
\* probe raised nothing, and returns False when the key is absent and when
\* the probe raised any other error.
C2_ExistsNeverRaises ==
    [][\A c \in Callers :
          (Began(c) /\ invocation'[c].op = "check_if_object_exists")
          => LET call == calls'[c][1]
             IN  /\ pc'[c] = "returned" /\ Len(calls'[c]) = 1
                 /\ call.method = "stat_object"
                 /\ call.bucket = bucket_name
                 /\ call.key = invocation'[c].object_name
                 /\ result'[c] \in {"True", "False"}
                 /\ (result'[c] = "True") <=> (call.raised = "none")
                 /\ (call.key \notin DOMAIN store) => (result'[c] = "False")
                 /\ store' = store]_vars

C2_Witness ==
    \E c \in Callers, d \in Callers :
        /\ Op(c) = "check_if_object_exists" /\ Op(d) = "check_if_object_exists"
        /\ ~bucket_name.none
        /\ FirstCall(c).key \in DOMAIN store
        /\ FirstCall(c).raised = "Exception" /\ result[c] = "False"
        /\ FirstCall(d).key \notin DOMAIN store
        /\ FirstCall(d).fault = "none" /\ result[d] = "False"

\* C3: in each of the four uploads, when the client call raised nothing the
\* operation returns True if the client reported a result object and False
\* if it reported null; null is not turned into FileUploadException.
C3_ResultIffReported ==
    \A c \in Callers :
        (Op(c) \in UploadOps /\ Returned(c) /\ FirstCall(c).raised = "none")
        => /\ FirstCall(c).reported \in Returns
           /\ (result[c] = "True") <=> (FirstCall(c).reported = "result")
           /\ (result[c] = "False") <=> (FirstCall(c).reported = "null")

C3_Witness ==
    \E c \in Callers, d \in Callers :
        /\ Op(c) = "upload_local_data" /\ FirstCall(c).raised = "none"
        /\ FirstCall(c).reported = "null" /\ result[c] = "False"
        /\ Op(d) = "upload_reward_function" /\ FirstCall(d).raised = "none"
        /\ FirstCall(d).reported = "result" /\ result[d] = "True"

\* C4 (as claimed): when remove_objects_folder's two client calls raise
\* nothing and no other caller acted in between, it returns True and no key
\* under the prefix is left in the bucket.
C4_FolderEmptyAfterRemove ==
    [][\A c \in Callers :
          (/\ pc[c] = "listed" /\ pc'[c] = "returned"
           /\ ~interleaved[c]
           /\ calls'[c][2].raised = "none")
          => /\ result'[c] = "True"
             /\ \A k \in DOMAIN store' :
                   ~StartsWith(k, invocation[c].object_name)]_vars

\* C5: copy_object makes exactly one client call, copy_object, whose
\* destination key is dest_name and whose source is source_name in the
\* configured bucket, the bucket of the destination; when the call raises
\* nothing it returns True, the destination holds the source's object and
\* the source object is as it was; otherwise it raises FileUploadException
\* and the bucket is as it was.
C5_CopyWithinBucket ==
    [][\A c \in Callers :
          (Began(c) /\ invocation'[c].op = "copy_object")
          => LET inv == invocation'[c]
                 call == calls'[c][1]
             IN  /\ pc'[c] = "returned" /\ Len(calls'[c]) = 1
                 /\ call.method = "copy_object"
                 /\ call.key = inv.dest_object_name
                 /\ call.source.object = inv.source_object_name
                 /\ call.source.bucket = bucket_name
                 /\ call.bucket = bucket_name
                 /\ IF call.raised = "none"
                    THEN /\ result'[c] = "True"
                         /\ inv.source_object_name \in DOMAIN store
                         /\ store'[inv.source_object_name]
                              = store[inv.source_object_name]
                         /\ store'[inv.dest_object_name]
                              = store[inv.source_object_name]
                    ELSE /\ result'[c] = "FileUploadException"
                         /\ store' = store]_vars

C5_Witness ==
    \E c \in Callers :
        /\ Op(c) = "copy_object" /\ result[c] = "True"
        /\ invocation[c].source_object_name = <<"custom", "/", "a.json">>
        /\ invocation[c].dest_object_name = <<"b.json">>
        /\ <<"b.json">> \in DOMAIN store
        /\ store[<<"b.json">>] = store[<<"custom", "/", "a.json">>]
        /\ store[<<"b.json">>].data = <<"o", "l", "d">>

\* The text the configured folder has in a key.
FolderText == IF custom_files_folder.none THEN <<"None">>
              ELSE custom_files_folder.str

\* C6: no step changes the bucket name or the folder, and every upload puts
\* to the configured bucket at a key fixed by the configuration and the
\* operation: folder/hyperparameters.json and folder/model_metadata.json
\* as application/json, folder/reward_function.py as text/plain, and for
\* upload_local_data the object_name given, with nothing added.
C6_FixedTargets ==
    [][/\ bucket_name' = bucket_name
       /\ custom_files_folder' = custom_files_folder
       /\ \A c \in Callers :
             (Began(c) /\ invocation'[c].op \in UploadOps)
             => LET op == invocation'[c].op
                    call == calls'[c][1]
                IN  /\ call.bucket = bucket_name
                    /\ op = "upload_hyperparameters" =>
                          /\ call.method = "put_object"
                          /\ call.key = FolderText
                                          \o <<"/", "hyperparameters.json">>
                          /\ call.content_type = "application/json"
                    /\ op = "upload_metadata" =>
                          /\ call.method = "put_object"
                          /\ call.key = FolderText
                                          \o <<"/", "model_metadata.json">>
                          /\ call.content_type = "application/json"
                    /\ op = "upload_reward_function" =>
                          /\ call.method = "put_object"
                          /\ call.key = FolderText
                                          \o <<"/", "reward_function.py">>
                          /\ call.content_type = "text/plain"
                    /\ op = "upload_local_data" =>
                          /\ call.method = "fput_object"
                          /\ call.key = invocation'[c].object_name
                    /\ call.raised = "none" =>
                          /\ call.key \in DOMAIN store'
                          /\ \A k \in DOMAIN store' \ {call.key} :
                                k \in DOMAIN store /\ store'[k] = store[k]]_vars

C6_Witness ==
    \E c \in Callers, d \in Callers :
        /\ Op(c) = "upload_hyperparameters" /\ result[c] = "True"
        /\ invocation[c].record = BatchSize64
        /\ FirstCall(c).bucket = Some(<<"models">>)
        /\ FirstCall(c).key = <<"custom", "/", "hyperparameters.json">>
        /\ FirstCall(c).key \in DOMAIN store
        /\ store[FirstCall(c).key].content_type = "application/json"
        /\ Op(d) = "upload_local_data" /\ result[d] = "True"
        /\ FirstCall(d).key = <<"b.json">>

\* C7: upload_hyperparameters and upload_metadata give put_object a stream
\* that holds, from its start, a JSON body which deserialises to the record
\* given, and a length equal to the number of bytes of that body.
C7_JsonBodyRoundTrips ==
    \A c \in Callers :
        (Op(c) \in {"upload_hyperparameters", "upload_metadata"})
        => LET call == FirstCall(c)
           IN  /\ call.method = "put_object"
               /\ call.stream.pos = 0
               /\ loads(call.stream.content) = Decoded(invocation[c].record)
               /\ call.length = Len(call.stream.content)
               /\ call.raised = "none" =>
                     /\ call.sent = call.stream.content
                     /\ store[call.key].data = call.stream.content

C7_Witness ==
    \E c \in Callers :
        /\ Op(c) = "upload_metadata" /\ result[c] = "True"
        /\ Len(invocation[c].record) >= 1
        /\ invocation[c].record[1].value = StrVal(<<EACUTE, BSLASH>>)
        /\ FirstCall(c).length = 17

\* C8 (as claimed): whatever the buffer's read position, when the client
\* is given a bucket and has no failure of its own, upload_reward_function
\* declares the length of the whole buffer, that length is the number of
\* bytes transmitted, the bytes transmitted are the buffer's whole content,
\* and the buffer's content is as it was.
C8_WholeBufferTransmitted ==
    \A c \in Callers :
        (/\ Op(c) = "upload_reward_function"
         /\ ~FirstCall(c).bucket.none
         /\ FirstCall(c).fault = "none")
        => LET call == FirstCall(c)
               buffer == invocation[c].buffer
           IN  /\ call.length = Len(buffer.content)
               /\ Len(call.sent) = call.length
               /\ call.sent = buffer.content
               /\ invocation[c].buffer_after.content = buffer.content

\* C9: an invocation calls each client method at most once (one put, fput,
\* stat or copy; for remove_objects_folder one list_objects and then at most
\* one remove_objects); a client call that raised is the last call, and the
\* invocation has then returned, with FileUploadException or, for
\* check_if_object_exists, with False.
MethodsOf(op) ==
    CASE op \in {"upload_hyperparameters", "upload_reward_function",
                 "upload_metadata"} -> <<"put_object">>
      [] op = "upload_local_data" -> <<"fput_object">>
      [] op = "check_if_object_exists" -> <<"stat_object">>
      [] op = "copy_object" -> <<"copy_object">>
      [] op = "remove_objects_folder" -> <<"list_objects", "remove_objects">>
      [] OTHER -> <<>>

C9_NoRetries ==
    \A c \in Callers :
        /\ Len(calls[c]) <= Len(MethodsOf(Op(c)))
        /\ \A i \in 1..Len(calls[c]) :
              /\ calls[c][i].method = MethodsOf(Op(c))[i]
              /\ calls[c][i].raised # "none" =>
                    /\ i = Len(calls[c])
                    /\ Returned(c)
                    /\ result[c] = IF Op(c) = "check_if_object_exists"
                                   THEN "False" ELSE "FileUploadException"

C9_Witness ==
    \E c \in Callers, d \in Callers :
        /\ Op(c) = "remove_objects_folder" /\ Len(calls[c]) = 1
        /\ ~bucket_name.none
        /\ FirstCall(c).raised = "MinioException" /\ Returned(c)
        /\ Op(d) = "check_if_object_exists"
        /\ FirstCall(d).raised = "Exception" /\ result[d] = "False"

\* The parts of C10 on the order and the content of the two client calls.
ListThenDelete(c) ==
    /\ Len(calls[c]) >= 1 => FirstCall(c).method = "list_objects"
    /\ (Len(calls[c]) >= 1 /\ FirstCall(c).raised # "none")
          => Len(calls[c]) = 1
    /\ Len(calls[c]) = 2 =>
          /\ calls[c][2].method = "remove_objects"
          /\ calls[c][2].keys = calls[c][1].keys
          /\ calls[c][2].keys = listing[c]
          /\ \A k \in calls[c][2].keys :
                StartsWith(k, invocation[c].object_name)

====
